---------------------------- MODULE Spec2Model ----------------------------
(***************************************************************************)
(* Model of the question extraction pipeline of src/试题转换/106.py:        *)
(* QuestionConfig, QuestionType, QuestionProcessor and QuestionExporter.   *)
(*                                                                         *)
(* Text.  A Python str is a sequence of characters; a character is a       *)
(* one-element token written as a TLA+ string.  ASCII characters stand for *)
(* themselves, the others are named:                                       *)
(*   "FWDOT" '．'   "FWCOLON" '：'   "LB" '【'   "RB" '】'                    *)
(*   "FWLP" '（'    "FWRP" '）'      "NL" a line break inside a paragraph   *)
(*   "Da" 答 "An" 案 "Nan" 难 "Du" 度 "Zhi" 知 "Shi" 识 "Dian" 点            *)
(*   "Xiang" 详 "Jie" 解 "Xi" 析 "Dui" 对 "Cuo" 错 "Zheng" 正 "Que" 确       *)
(*   "Wu" 误 "Tick" '√' "Cross" '×' "Yi" 易 "Zhong" 中                      *)
(* The question types and the statistics keys are plain labels:            *)
(*   "SingleChoice" 单选题  "MultiChoice" 多选题  "Judgment" 判断题          *)
(*   "FillBlank" 填空题     "Unknown" 未知类型     "Total" 总题数            *)
(***************************************************************************)
EXTENDS Integers, Sequences, FiniteSets, TLC

VARIABLES
    config,               \* QuestionConfig.config
    vocab,                \* the paragraphs the document reader may yield
    paras,                \* doc.paragraphs consumed so far by the loop
    kinds,                \* history: the branch of the loop body each one took
    pc,                   \* position: "loop", "done", "exported", or a pure call
    data,                 \* the nine per-field lists of process_document
    stats,                \* QuestionProcessor.stats
    current_question,     \* None (the empty mapping) or the open block's dict
    collecting_title,
    current_title_lines,
    current_choices,
    current_has_image,
    grouped_data,         \* export_to_excel's row list
    worksheet,            \* the rows of the written sheet, with their styles
    calls,                \* process_document calls made on this processor
    fn,                   \* the pure function under call, "" when none
    arg,                  \* its argument
    result                \* its return value

vars == <<config, vocab, paras, kinds, pc, data, stats, current_question,
          collecting_title, current_title_lines, current_choices,
          current_has_image, grouped_data, worksheet, calls, fn, arg, result>>

docVars == <<paras, kinds, data, stats, current_question, collecting_title,
             current_title_lines, current_choices, current_has_image>>

-----------------------------------------------------------------------------
(* Bounds of the model *)

MaxParas == 4

MaxTextLen == 3

MaxAnsLen == 2

MaxTokLen == 3

MaxLines == 2

MaxRecords == 3

MaxCalls == 2

-----------------------------------------------------------------------------
(* Python str primitives *)

Digits == {"0", "1", "2", "3", "4", "5", "6", "7", "8", "9"}

Whitespace == {" ", "NL"}

LowerToUpper ==
    [c \in {"a", "b", "c", "d", "e", "f", "l", "n", "r", "s", "t", "u", "x", "y"} |->
        CASE c = "a" -> "A" [] c = "b" -> "B" [] c = "c" -> "C"
          [] c = "d" -> "D" [] c = "e" -> "E" [] c = "f" -> "F"
          [] c = "l" -> "L" [] c = "n" -> "N" [] c = "r" -> "R"
          [] c = "s" -> "S"
          [] c = "t" -> "T" [] c = "u" -> "U" [] c = "x" -> "X"
          [] c = "y" -> "Y"]

UpperChar(c) == IF c \in DOMAIN LowerToUpper THEN LowerToUpper[c] ELSE c

\* str.upper()
Upper(s) == [i \in 1..Len(s) |-> UpperChar(s[i])]

\* str.startswith(prefix)
StartsWith(s, prefix) ==
    /\ Len(prefix) <= Len(s)
    /\ \A i \in 1..Len(prefix) : s[i] = prefix[i]

\* s[n:]
DropFirst(s, n) == IF n >= Len(s) THEN <<>> ELSE SubSeq(s, n + 1, Len(s))

\* needle in s
Contains(s, needle) ==
    \E i \in 0..(Len(s) - Len(needle)) :
        \A j \in 1..Len(needle) : s[i + j] = needle[j]

\* str.strip()
Strip(s) ==
    LET keep == {i \in 1..Len(s) : s[i] \notin Whitespace}
    IN  IF keep = {} THEN <<>>
        ELSE LET lo == CHOOSE i \in keep : \A j \in keep : i <= j
                 hi == CHOOSE i \in keep : \A j \in keep : j <= i
             IN  SubSeq(s, lo, hi)

\* str.replace(' ', '')
RemoveSpaces(s) == SelectSeq(s, LAMBDA c : c # " ")

\* set(s)
CharSet(s) == {s[i] : i \in 1..Len(s)}

RECURSIVE Join(_, _)
\* sep.join(lines)
Join(sep, lines) ==
    IF Len(lines) = 0 THEN <<>>
    ELSE IF Len(lines) = 1 THEN lines[1]
    ELSE lines[1] \o sep \o Join(sep, Tail(lines))

\* the number of leading characters of s that \d matches
LeadingDigits(s) ==
    LET stops == {i \in 1..Len(s) : s[i] \notin Digits}
    IN  IF stops = {} THEN Len(s)
        ELSE (CHOOSE i \in stops : \A j \in stops : i <= j) - 1

\* the number of leading characters of s that \s matches
LeadingSpaces(s) ==
    LET stops == {i \in 1..Len(s) : s[i] \notin Whitespace}
    IN  IF stops = {} THEN Len(s)
        ELSE (CHOOSE i \in stops : \A j \in stops : i <= j) - 1

\* One character against a separator used as a regular expression: the
\* separator is concatenated into the pattern unescaped, so '.' is the
\* regex metacharacter (any character but a line break) and '．' is literal.
SepMatches(sep, c) == IF sep = "." THEN c # "NL" ELSE c = sep

\* The end of the match of r'^\d+' + sep on s, 0 when there is none: \d+ is
\* greedy and gives digits back until the separator matches.
NumberMatchEnd(sep, s) ==
    LET ends == {k \in 1..LeadingDigits(s) :
                    k + 1 <= Len(s) /\ SepMatches(sep, s[k + 1])}
    IN  IF ends = {} THEN 0
        ELSE (CHOOSE k \in ends : \A j \in ends : j <= k) + 1


-----------------------------------------------------------------------------
(* Decimal numbers: [m |-> mantissa, f |-> fractional digits] is m / 10^f.  *)
(* float() of a decimal literal and a YAML threshold written with the same  *)
(* decimal value are the same double, so comparing decimals is comparing    *)
(* the floats (literals of at most 15 significant digits).                  *)

RECURSIVE Pow10(_)
Pow10(n) == IF n = 0 THEN 1 ELSE 10 * Pow10(n - 1)

DecLess(a, b) == a.m * Pow10(b.f) < b.m * Pow10(a.f)

DecEq(a, b) == a.m * Pow10(b.f) = b.m * Pow10(a.f)

DigitVal(c) ==
    CASE c = "0" -> 0 [] c = "1" -> 1 [] c = "2" -> 2 [] c = "3" -> 3
      [] c = "4" -> 4 [] c = "5" -> 5 [] c = "6" -> 6 [] c = "7" -> 7
      [] c = "8" -> 8 [] c = "9" -> 9

RECURSIVE DigitsVal(_)
DigitsVal(ds) ==
    IF Len(ds) = 0 THEN 0
    ELSE 10 * DigitsVal(SubSeq(ds, 1, Len(ds) - 1)) + DigitVal(ds[Len(ds)])

\* float(value): [ok |-> FALSE] is ValueError.  The literals covered are
\* [sign] digits [. digits], [sign] . digits and [sign] nan in any case,
\* surrounding whitespace ignored; exponents and inf are outside the
\* modelled token alphabet.
ParseFloat(value) ==
    LET t      == Strip(value)
        signed == Len(t) > 0 /\ t[1] \in {"-", "+"}
        body   == IF signed THEN Tail(t) ELSE t
        dots   == {i \in 1..Len(body) : body[i] = "."}
        ds     == SelectSeq(body, LAMBDA c : c # ".")
        wellformed == /\ \A i \in 1..Len(body) : body[i] \in Digits \cup {"."}
                      /\ Cardinality(dots) <= 1
                      /\ Len(ds) >= 1
    IN  IF Upper(body) = <<"N", "A", "N">>
        THEN [ok |-> TRUE, nan |-> TRUE, m |-> 0, f |-> 0]
        ELSE IF ~wellformed THEN [ok |-> FALSE, nan |-> FALSE, m |-> 0, f |-> 0]
        ELSE [ok |-> TRUE,
              nan |-> FALSE,
              m  |-> IF signed /\ t[1] = "-" THEN 0 - DigitsVal(ds)
                     ELSE DigitsVal(ds),
              f  |-> IF dots = {} THEN 0
                     ELSE Len(body) - (CHOOSE i \in dots : TRUE)]

\* value < threshold and value == threshold for a parsed float: both are
\* false of nan
FloatLess(v, threshold) == ~v.nan /\ DecLess(v, threshold)

FloatEq(v, threshold) == ~v.nan /\ DecEq(v, threshold)

-----------------------------------------------------------------------------
(* QuestionConfig *)

TagTypes == <<"answer", "difficulty", "knowledge", "explanation">>

default_config ==
    [separators |-> <<"FWDOT", ".">>,
     tags |->
        [answer      |-> << <<"LB", "Da", "An", "RB">>, <<"[", "Da", "An", "]">>,
                            <<"Da", "An", "FWCOLON">>, <<"Da", "An", ":">> >>,
         difficulty  |-> << <<"LB", "Nan", "Du", "RB">>, <<"[", "Nan", "Du", "]">>,
                            <<"Nan", "Du", "FWCOLON">>, <<"Nan", "Du", ":">> >>,
         knowledge   |-> << <<"LB", "Zhi", "Shi", "Dian", "RB">>,
                            <<"[", "Zhi", "Shi", "Dian", "]">>,
                            <<"Zhi", "Shi", "Dian", "FWCOLON">>,
                            <<"Zhi", "Shi", "Dian", ":">> >>,
         explanation |-> << <<"LB", "Xiang", "Jie", "RB">>, <<"[", "Xiang", "Jie", "]">>,
                            <<"Jie", "Xi", "FWCOLON">>, <<"Jie", "Xi", ":">> >>],
     difficulty_levels |->
        [easy   |-> [threshold |-> [m |-> 85, f |-> 2], name |-> <<"Yi">>],
         medium |-> [threshold |-> [m |-> 85, f |-> 2], name |-> <<"Zhong">>],
         hard   |-> [name |-> <<"Nan">>]],
     options |-> <<"A", "B", "C", "D">>,
     judge_answers |->
        {<<"T">>, <<"F">>, <<"Dui">>, <<"Cuo">>, <<"T", "R", "U", "E">>,
         <<"F", "A", "L", "S", "E">>, <<"Tick">>, <<"Cross">>,
         <<"t", "r", "u", "e">>, <<"f", "a", "l", "s", "e">>,
         <<"T", "r", "u", "e">>, <<"F", "a", "l", "s", "e">>,
         <<"Zheng", "Que">>, <<"Cuo", "Wu">>}]

\* any(text.startswith(tag) for tag in self.config['tags'][tag_type])
HasTag(text, tag_type) ==
    \E i \in 1..Len(config.tags[tag_type]) :
        StartsWith(text, config.tags[tag_type][i])

\* QuestionConfig.get_tag_content, called only when HasTag holds: the
\* content after the first label of the list that the text starts with.
get_tag_content(text, tag_type) ==
    LET tags == config.tags[tag_type]
        hits == {i \in 1..Len(tags) : StartsWith(text, tags[i])}
        i    == CHOOSE k \in hits : \A j \in hits : k <= j
    IN  Strip(DropFirst(text, Len(tags[i])))

determine_difficulty_swapped(value) ==
    LET levels == config.difficulty_levels
        v      == ParseFloat(value)
    IN  IF ~v.ok THEN levels.medium.name
        ELSE IF FloatEq(v, levels.medium.threshold) THEN levels.medium.name
        ELSE IF FloatLess(v, levels.easy.threshold) THEN levels.easy.name
        ELSE levels.hard.name

\* QuestionConfig.determine_difficulty
determine_difficulty(value) ==
    LET levels == config.difficulty_levels
        v      == ParseFloat(value)
    IN  IF ~v.ok THEN levels.medium.name
        ELSE IF FloatLess(v, levels.easy.threshold) THEN levels.easy.name
        ELSE IF FloatEq(v, levels.medium.threshold) THEN levels.medium.name
        ELSE levels.hard.name

-----------------------------------------------------------------------------
(* QuestionType *)

\* None, where the code passes None for a str
None == <<"None">>

determine_type_choice_first(answer) ==
    IF answer = None \/ answer = <<>> THEN "Unknown"
    ELSE
        LET original_answer == answer
            upper           == Strip(Upper(answer))
            valid_options   == CharSet(config.options)
            answer_chars    == CharSet(RemoveSpaces(upper))
        IN  IF answer_chars # {} /\ answer_chars \subseteq valid_options
            THEN IF Len(RemoveSpaces(upper)) > 1 THEN "MultiChoice"
                 ELSE "SingleChoice"
            ELSE IF \E judge_ans \in config.judge_answers :
                       judge_ans = original_answer \/ Upper(judge_ans) = upper
            THEN "Judgment"
            ELSE "FillBlank"

determine_type_distinct_letters(answer) ==
    IF answer = None \/ answer = <<>> THEN "Unknown"
    ELSE
        LET original_answer == answer
            upper           == Strip(Upper(answer))
            valid_options   == CharSet(config.options)
            answer_chars    == CharSet(RemoveSpaces(upper))
        IN  IF \E judge_ans \in config.judge_answers :
                  judge_ans = original_answer \/ Upper(judge_ans) = upper
            THEN "Judgment"
            ELSE IF answer_chars # {} /\ answer_chars \subseteq valid_options
            THEN IF Cardinality(answer_chars) > 1 THEN "MultiChoice"
                 ELSE "SingleChoice"
            ELSE "FillBlank"

\* QuestionType.determine_type
determine_type(answer) ==
    IF answer = None \/ answer = <<>> THEN "Unknown"
    ELSE
        LET original_answer == answer
            upper           == Strip(Upper(answer))
            valid_options   == CharSet(config.options)
            answer_chars    == CharSet(RemoveSpaces(upper))
        IN  IF \E judge_ans \in config.judge_answers :
                  judge_ans = original_answer \/ Upper(judge_ans) = upper
            THEN "Judgment"
            ELSE IF answer_chars # {} /\ answer_chars \subseteq valid_options
            THEN IF Len(RemoveSpaces(upper)) > 1 THEN "MultiChoice"
                 ELSE "SingleChoice"
            ELSE "FillBlank"

count_options_occurrences(choices) ==
    IF Len(choices) = 0 THEN 0
    ELSE
        LET upper == Upper(choices)
        IN  Cardinality({i \in 1..(Len(upper) - 1) :
                /\ \E k \in 1..Len(config.options) : upper[i] = config.options[k]
                /\ upper[i + 1] \in {".", "FWDOT", " "}})

\* QuestionType.count_options
count_options(choices) ==
    IF Len(choices) = 0 THEN 0
    ELSE
        LET upper == Upper(choices)
        IN  Cardinality({k \in 1..Len(config.options) :
                \/ Contains(upper, <<config.options[k], ".">>)
                \/ Contains(upper, <<config.options[k], "FWDOT">>)
                \/ Contains(upper, <<config.options[k], " ">>)})

-----------------------------------------------------------------------------
(* QuestionProcessor *)

TypeNames == {"SingleChoice", "MultiChoice", "Judgment", "FillBlank", "Unknown"}

\* QuestionProcessor.__init__: self.stats
InitialStats ==
    [k \in TypeNames \cup {"Total"} |-> 0]

\* QuestionProcessor.is_question_start
is_question_start(text) ==
    \E i \in 1..Len(config.separators) :
        NumberMatchEnd(config.separators[i], Strip(text)) > 0

\* QuestionProcessor.is_option_start
is_option_start(text) ==
    LET t == Strip(text)
    IN  \E k \in 1..Len(config.options) :
            \/ StartsWith(t, <<config.options[k], ".">>)
            \/ StartsWith(t, <<config.options[k], "FWDOT">>)

\* QuestionProcessor.has_image: whether a run of the paragraph holds a
\* drawing or a picture, as the document reader reports it
has_image(paragraph) == paragraph.hasMedia

\* re.sub(r'^\d+' + sep + r'\s*', '', text)
RemoveNumber(sep, text) ==
    LET e == NumberMatchEnd(sep, text)
    IN  IF e = 0 THEN text
        ELSE LET rest == DropFirst(text, e)
             IN  DropFirst(rest, LeadingSpaces(rest))

RECURSIVE RemoveNumbers(_, _)
RemoveNumbers(seps, text) ==
    IF Len(seps) = 0 THEN text
    ELSE RemoveNumbers(Tail(seps), RemoveNumber(seps[1], text))

\* QuestionProcessor.remove_question_number
remove_question_number(text) == RemoveNumbers(config.separators, text)

RECURSIVE NormalizeBlanks(_)
\* re.sub(r'（\s*）', '（   ）', full_title)
NormalizeBlanks(s) ==
    IF Len(s) = 0 THEN <<>>
    ELSE LET rest == Tail(s)
             n    == LeadingSpaces(rest)
         IN  IF s[1] = "FWLP" /\ n < Len(rest) /\ rest[n + 1] = "FWRP"
             THEN <<"FWLP", " ", " ", " ", "FWRP">>
                      \o NormalizeBlanks(DropFirst(rest, n + 1))
             ELSE <<s[1]>> \o NormalizeBlanks(rest)

\* dict.get(key, default)
Get(d, key, default) == IF key \in DOMAIN d THEN d[key] ELSE default

\* process_document: data = {...}
EmptyData ==
    [title_list |-> <<>>, choice_list |-> <<>>, answer_list |-> <<>>,
     difficulty_list |-> <<>>, knowledge_list |-> <<>>, explain_list |-> <<>>,
     type_list |-> <<>>, option_count_list |-> <<>>, has_image_list |-> <<>>]

\* The variables save_current_question reads and writes, as one record
Locals ==
    [data |-> data, stats |-> stats, current_question |-> current_question,
     current_title_lines |-> current_title_lines,
     current_choices |-> current_choices,
     current_has_image |-> current_has_image]

\* '\n'.join(current_choices) if current_choices else ''
JoinChoices(choices) == Join(<<"NL">>, choices)

save_current_question_no_tags(L) ==
    IF DOMAIN L.current_question = {} THEN L
    ELSE
        LET cleaned_title == remove_question_number(
                                 NormalizeBlanks(Join(<<" ">>, L.current_title_lines)))
            choice_text   == JoinChoices(L.current_choices)
            answer        == Get(L.current_question, "answer", <<>>)
            question_type == determine_type(answer)
        IN  [L EXCEPT
               !.data = [title_list |-> Append(@.title_list, cleaned_title),
                         has_image_list |-> Append(@.has_image_list, L.current_has_image),
                         choice_list |-> Append(@.choice_list, choice_text),
                         option_count_list |->
                             Append(@.option_count_list, count_options(choice_text)),
                         answer_list |-> Append(@.answer_list, answer),
                         type_list |-> Append(@.type_list, question_type),
                         difficulty_list |-> @.difficulty_list,
                         knowledge_list |-> @.knowledge_list,
                         explain_list |-> @.explain_list],
               !.stats = [@ EXCEPT ![question_type] = @ + 1],
               !.current_title_lines = <<>>,
               !.current_choices = <<>>,
               !.current_has_image = FALSE]

\* process_document.save_current_question
save_current_question(L) ==
    IF DOMAIN L.current_question = {} THEN L
    ELSE
        LET cleaned_title == remove_question_number(
                                 NormalizeBlanks(Join(<<" ">>, L.current_title_lines)))
            choice_text   == JoinChoices(L.current_choices)
            answer        == Get(L.current_question, "answer", <<>>)
            question_type == determine_type(answer)
        IN  [L EXCEPT
               !.data = [title_list |-> Append(@.title_list, cleaned_title),
                         has_image_list |-> Append(@.has_image_list, L.current_has_image),
                         choice_list |-> Append(@.choice_list, choice_text),
                         option_count_list |->
                             Append(@.option_count_list, count_options(choice_text)),
                         answer_list |-> Append(@.answer_list, answer),
                         type_list |-> Append(@.type_list, question_type),
                         difficulty_list |->
                             Append(@.difficulty_list,
                                    Get(L.current_question, "difficulty", <<>>)),
                         knowledge_list |->
                             Append(@.knowledge_list,
                                    Get(L.current_question, "knowledge", <<>>)),
                         explain_list |->
                             Append(@.explain_list,
                                    Get(L.current_question, "explanation", <<>>))],
               !.stats = [@ EXCEPT ![question_type] = @ + 1],
               !.current_title_lines = <<>>,
               !.current_choices = <<>>,
               !.current_has_image = FALSE]

OnQuestionStart_keep_tags(para, text) ==
    LET L == save_current_question(Locals)
    IN  /\ data' = L.data
        /\ stats' = L.stats
        /\ current_choices' = L.current_choices
        /\ current_question' = ("title" :> text) @@ current_question
        /\ collecting_title' = TRUE
        /\ current_title_lines' = <<text>>
        /\ current_has_image' = has_image(para)

\* The branch of the loop body taken for a new question
OnQuestionStart(para, text) ==
    LET L == save_current_question(Locals)
    IN  /\ data' = L.data
        /\ stats' = L.stats
        /\ current_choices' = L.current_choices
        /\ current_question' = [title |-> text]
        /\ collecting_title' = TRUE
        /\ current_title_lines' = <<text>>
        /\ current_has_image' = has_image(para)

OnOptionStart_keep_collecting(text) ==
    /\ current_choices' = Append(current_choices, text)
    /\ UNCHANGED <<data, stats, current_question, collecting_title,
                   current_title_lines, current_has_image>>

\* The branch for an option line
OnOptionStart(text) ==
    /\ collecting_title' = FALSE
    /\ current_choices' = Append(current_choices, text)
    /\ UNCHANGED <<data, stats, current_question, current_title_lines,
                   current_has_image>>

\* current_question[key] = value
SetTag(key, value) ==
    /\ current_question' = (key :> value) @@ current_question
    /\ UNCHANGED <<data, stats, collecting_title, current_title_lines,
                   current_choices, current_has_image>>

\* The branches for the four kinds of tag line
OnTag(tag_type, text) ==
    LET content == get_tag_content(text, tag_type)
        open    == DOMAIN current_question # {}
        skip    == UNCHANGED <<data, stats, current_question, collecting_title,
                               current_title_lines, current_choices,
                               current_has_image>>
    IN  CASE tag_type = "answer" ->
                IF content # <<>> /\ open THEN SetTag("answer", content) ELSE skip
          [] tag_type = "difficulty" ->
                IF open THEN SetTag("difficulty", determine_difficulty(content))
                ELSE skip
          [] OTHER ->
                IF open THEN SetTag(tag_type, content) ELSE skip

OnContent_flag_always(para, text) ==
    IF collecting_title
    THEN /\ current_title_lines' = Append(current_title_lines, text)
         /\ current_has_image' =
                IF ~current_has_image THEN has_image(para) ELSE current_has_image
         /\ UNCHANGED <<data, stats, current_question, collecting_title,
                        current_choices>>
    ELSE /\ current_has_image' =
                IF ~current_has_image THEN has_image(para) ELSE current_has_image
         /\ UNCHANGED <<data, stats, current_question, collecting_title,
                        current_title_lines, current_choices>>

\* The branch for any other line
OnContent(para, text) ==
    IF collecting_title
    THEN /\ current_title_lines' = Append(current_title_lines, text)
         /\ current_has_image' =
                IF ~current_has_image THEN has_image(para) ELSE current_has_image
         /\ UNCHANGED <<data, stats, current_question, collecting_title,
                        current_choices>>
    ELSE UNCHANGED <<data, stats, current_question, collecting_title,
                     current_title_lines, current_choices, current_has_image>>

LineKind_explanation_first(text) ==
    IF is_question_start(text) THEN "QuestionStart"
    ELSE IF is_option_start(text) THEN "OptionStart"
    ELSE IF HasTag(text, "explanation") THEN "explanation"
    ELSE IF HasTag(text, "answer") THEN "answer"
    ELSE IF HasTag(text, "difficulty") THEN "difficulty"
    ELSE IF HasTag(text, "knowledge") THEN "knowledge"
    ELSE "Content"

\* process_document: the if/elif chain that dispatches a stripped,
\* non-empty paragraph text
LineKind(text) ==
    IF is_question_start(text) THEN "QuestionStart"
    ELSE IF is_option_start(text) THEN "OptionStart"
    ELSE IF HasTag(text, "answer") THEN "answer"
    ELSE IF HasTag(text, "difficulty") THEN "difficulty"
    ELSE IF HasTag(text, "knowledge") THEN "knowledge"
    ELSE IF HasTag(text, "explanation") THEN "explanation"
    ELSE "Content"

\* The branch of the loop body a paragraph takes: "Blank" is the `continue`
\* of a paragraph whose stripped text is empty
ParaKind(para) ==
    LET text == Strip(para.text)
    IN  IF text = <<>> THEN "Blank" ELSE LineKind(text)

\* process_document: the body of `for para in doc.paragraphs`
LoopBody(para) ==
    LET text == Strip(para.text)
        kind == ParaKind(para)
    IN  CASE kind = "Blank" ->
                UNCHANGED <<data, stats, current_question, collecting_title,
                            current_title_lines, current_choices, current_has_image>>
          [] kind = "QuestionStart" -> OnQuestionStart(para, text)
          [] kind = "OptionStart" -> OnOptionStart(text)
          [] kind = "Content" -> OnContent(para, text)
          [] OTHER -> OnTag(kind, text)

\* One iteration of the loop of process_document on the next paragraph
ProcessParagraph ==
    /\ pc = "loop"
    /\ Len(paras) < MaxParas
    /\ \E para \in vocab :
        /\ paras' = Append(paras, para)
        /\ kinds' = Append(kinds, ParaKind(para))
        /\ LoopBody(para)
    /\ UNCHANGED <<config, vocab, pc, grouped_data, worksheet, calls,
                   fn, arg, result>>

\* process_document after the loop: the last question is saved and the
\* total is counted
EndOfStream ==
    /\ pc = "loop"
    /\ LET L == save_current_question(Locals)
       IN  /\ data' = L.data
           /\ stats' = [L.stats EXCEPT !["Total"] = Len(L.data.title_list)]
           /\ current_title_lines' = L.current_title_lines
           /\ current_choices' = L.current_choices
           /\ current_has_image' = L.current_has_image
    /\ pc' = "done"
    /\ UNCHANGED <<config, vocab, paras, kinds, current_question,
                   collecting_title, grouped_data, worksheet, calls,
                   fn, arg, result>>

-----------------------------------------------------------------------------
(* QuestionExporter *)

\* data[name][i] if i < len(data[name]) else default
At(list, i, default) == IF i <= Len(list) THEN list[i] ELSE default

\* QuestionExporter.prepare_excel_data: one row per title, the columns
\* 题型 题干 选项 选项数量 答案 解析 所属知识点 难度 and has_image
prepare_excel_data(d) ==
    [i \in 1..Len(d.title_list) |->
        [QType       |-> At(d.type_list, i, ""),
         Title       |-> d.title_list[i],
         Options     |-> At(d.choice_list, i, <<>>),
         OptionCount |-> At(d.option_count_list, i, 0),
         Answer      |-> At(d.answer_list, i, <<>>),
         Explain     |-> At(d.explain_list, i, <<>>),
         Knowledge   |-> At(d.knowledge_list, i, <<>>),
         Difficulty  |-> At(d.difficulty_list, i, <<>>),
         has_image   |-> At(d.has_image_list, i, FALSE)]]

type_order == <<"SingleChoice", "MultiChoice", "Judgment", "FillBlank", "Unknown">>

\* empty_row: every column '' and has_image False
empty_row ==
    [QType |-> "", Title |-> <<>>, Options |-> <<>>, OptionCount |-> <<>>,
     Answer |-> <<>>, Explain |-> <<>>, Knowledge |-> <<>>, Difficulty |-> <<>>,
     has_image |-> FALSE]

RECURSIVE GroupRows_separator_always(_, _, _)
GroupRows_separator_always(order, excel_data, grouped) ==
    IF Len(order) = 0 THEN grouped
    ELSE LET type_questions == SelectSeq(excel_data, LAMBDA q : q.QType = order[1])
         IN  GroupRows_separator_always(Tail(order), excel_data,
                IF Len(type_questions) > 0
                THEN Append(grouped, empty_row) \o type_questions
                ELSE grouped)

Reverse(seq) == [i \in 1..Len(seq) |-> seq[Len(seq) + 1 - i]]

RECURSIVE GroupRows_newest_first(_, _, _)
GroupRows_newest_first(order, excel_data, grouped) ==
    IF Len(order) = 0 THEN grouped
    ELSE LET type_questions == SelectSeq(excel_data, LAMBDA q : q.QType = order[1])
         IN  GroupRows_newest_first(Tail(order), excel_data,
                IF Len(type_questions) > 0
                THEN (IF Len(grouped) > 0 THEN Append(grouped, empty_row)
                      ELSE grouped) \o Reverse(type_questions)
                ELSE grouped)

RECURSIVE GroupRows(_, _, _)
\* export_to_excel: the loop `for question_type in type_order`
GroupRows(order, excel_data, grouped) ==
    IF Len(order) = 0 THEN grouped
    ELSE LET type_questions == SelectSeq(excel_data, LAMBDA q : q.QType = order[1])
         IN  GroupRows(Tail(order), excel_data,
                IF Len(type_questions) > 0
                THEN (IF Len(grouped) > 0 THEN Append(grouped, empty_row)
                      ELSE grouped) \o type_questions
                ELSE grouped)

\* export_to_excel: the rows handed to the sheet
GroupedRows(d) == GroupRows(type_order, prepare_excel_data(d), <<>>)

\* config['output']['columns']: 题型 题干 选项 选项数量 答案 解析 所属知识点 难度
columns ==
    <<"QType", "Title", "Options", "OptionCount", "Answer", "Explain",
      "Knowledge", "Difficulty">>

\* a sheet row: its cells by column, and the styles the formatting sets
Cells(values) == [cells |-> values, bold |-> FALSE, fill |-> FALSE]

\* pd.DataFrame(grouped_data)[columns] written by df.to_excel(index=False):
\* the header row of the column names, then one row per grouped row without
\* its has_image key
to_excel(rows) ==
    LET names == {columns[k] : k \in 1..Len(columns)}
    IN  <<Cells([c \in names |-> c])>>
            \o [i \in 1..Len(rows) |-> Cells([c \in names |-> rows[i][c]])]

format_excel_worksheet_row_below(sheet, d) ==
    [i \in 1..Len(sheet) |->
        LET row_idx == i - 1
        IN  IF row_idx = 0 THEN [sheet[i] EXCEPT !.bold = TRUE]
            ELSE IF row_idx <= Len(d)
            THEN (IF row_idx + 1 <= Len(d) /\ d[row_idx + 1].has_image
                  THEN [sheet[i] EXCEPT !.fill = TRUE]
                  ELSE sheet[i])
            ELSE sheet[i]]

\* QuestionExporter._format_excel_worksheet: row_idx counts the sheet rows
\* from 0, the header; data[row_idx - 1] is the (row_idx)-th row of d
format_excel_worksheet(sheet, d) ==
    [i \in 1..Len(sheet) |->
        LET row_idx == i - 1
        IN  IF row_idx = 0 THEN [sheet[i] EXCEPT !.bold = TRUE]
            ELSE IF row_idx <= Len(d)
            THEN (IF d[row_idx].has_image
                  THEN [sheet[i] EXCEPT !.fill = TRUE]
                  ELSE sheet[i])
            ELSE sheet[i]]

\* QuestionExporter.export_to_excel.  pd.DataFrame(grouped_data)[columns]
\* raises KeyError on an empty row list (a frame without columns), which the
\* handler logs and raises again before any sheet is written.
ExportToExcel ==
    /\ pc = "done"
    /\ grouped_data' = GroupedRows(data)
    /\ IF Len(grouped_data') = 0
       THEN /\ pc' = "export_error"
            /\ UNCHANGED worksheet
       ELSE /\ pc' = "exported"
            /\ worksheet' = format_excel_worksheet(to_excel(grouped_data'),
                                                    grouped_data')
    /\ UNCHANGED <<config, vocab, calls, fn, arg, result>>
    /\ UNCHANGED docVars

-----------------------------------------------------------------------------
(* Documents: the paragraphs the reader yields, as [text, hasMedia] *)

Para(text, hasMedia) == [text |-> text, hasMedia |-> hasMedia]

\* segmentation: two question starts, an option, the four tags (the
\* difficulty token is not a number), a content line and a blank paragraph
VocabSegment ==
    {Para(<<"1", ".", "Q">>, FALSE),
     Para(<<"2", "FWDOT", "R">>, TRUE),
     Para(<<"A", ".", "x">>, FALSE),
     Para(<<"LB", "Da", "An", "RB", "A">>, FALSE),
     Para(<<"Nan", "Du", ":", "x">>, FALSE),
     Para(<<"[", "Zhi", "Shi", "Dian", "]", "k">>, FALSE),
     Para(<<"Jie", "Xi", "FWCOLON", "e">>, FALSE),
     Para(<<"w">>, TRUE),
     Para(<<" ">>, FALSE)}

\* one question with options A and B and the answer A
VocabRoundTrip ==
    {Para(<<"1", ".", "Q">>, FALSE),
     Para(<<"A", ".", "x">>, FALSE),
     Para(<<"A", ".", "c", " ", "d">>, FALSE),
     Para(<<"B", ".", "y">>, FALSE),
     Para(<<"LB", "Da", "An", "RB", "A">>, FALSE)}

\* one question whose text begins with a digit after its number, an option
\* and an answer tag that hold a picture, an answer tag without content and a
\* content line that holds a picture
VocabFields ==
    {Para(<<"1", "FWDOT", "2", "x">>, FALSE),
     Para(<<"A", ".", "x">>, TRUE),
     Para(<<"LB", "Da", "An", "RB", "A">>, TRUE),
     Para(<<"LB", "Da", "An", "RB">>, FALSE),
     Para(<<"w">>, TRUE)}

\* a custom configuration whose tag labels have no punctuation, so that a
\* label of one kind is the beginning of a label of another kind
overlap_config ==
    [default_config EXCEPT
        !.tags.answer      = << <<"Da", "An">> >>,
        !.tags.difficulty  = << <<"Nan", "Du">> >>,
        !.tags.knowledge   = << <<"Nan", "Du", "Dian">> >>,
        !.tags.explanation = << <<"Da", "An", "Jie", "Xi">>, <<"Jie", "Xi">> >>]

\* lines for overlap_config: a question start, a line that begins with an
\* answer and an explanation label, a line with an explanation label only, a
\* line that begins with a difficulty and a knowledge label, a content line
VocabPriority ==
    {Para(<<"1", ".", "Q">>, FALSE),
     Para(<<"Da", "An", "Jie", "Xi", "e">>, FALSE),
     Para(<<"Jie", "Xi", "f">>, FALSE),
     Para(<<"Nan", "Du", "Dian", "k">>, FALSE),
     Para(<<"w">>, FALSE)}

\* the documents read under each configuration
Documents ==
    {<<default_config, VocabSegment>>, <<default_config, VocabRoundTrip>>,
     <<default_config, VocabFields>>, <<overlap_config, VocabPriority>>}

IdleCall == fn = "" /\ arg = <<>> /\ result = <<>>

\* QuestionBank.__init__ with the default configuration, then the entry of
\* process_document
Init ==
    /\ \E document \in Documents :
          config = document[1] /\ vocab = document[2]
    /\ paras = <<>>
    /\ kinds = <<>>
    /\ pc = "loop"
    /\ data = EmptyData
    /\ stats = InitialStats
    /\ current_question = <<>>
    /\ collecting_title = FALSE
    /\ current_title_lines = <<>>
    /\ current_choices = <<>>
    /\ current_has_image = FALSE
    /\ grouped_data = <<>>
    /\ worksheet = <<>>
    /\ calls = 1
    /\ IdleCall

Next == ProcessParagraph \/ EndOfStream \/ ExportToExcel

Spec == Init /\ [][Next]_vars

-----------------------------------------------------------------------------
(* Successive process_document calls on one QuestionProcessor *)

\* a question start and two answer tags: questions of the types Unknown,
\* SingleChoice and Judgment
VocabRuns ==
    {Para(<<"1", ".", "Q">>, FALSE),
     Para(<<"LB", "Da", "An", "RB", "A">>, FALSE),
     Para(<<"LB", "Da", "An", "RB", "T">>, FALSE)}

\* The entry of a further process_document call: data and the locals are
\* created anew, self.stats is the processor's and is left as it is
ProcessDocument ==
    /\ pc = "done"
    /\ calls < MaxCalls
    /\ calls' = calls + 1
    /\ pc' = "loop"
    /\ paras' = <<>>
    /\ kinds' = <<>>
    /\ data' = EmptyData
    /\ current_question' = <<>>
    /\ collecting_title' = FALSE
    /\ current_title_lines' = <<>>
    /\ current_choices' = <<>>
    /\ current_has_image' = FALSE
    /\ UNCHANGED <<config, vocab, stats, grouped_data, worksheet, fn, arg, result>>

InitRuns ==
    /\ config = default_config
    /\ vocab = VocabRuns
    /\ paras = <<>>
    /\ kinds = <<>>
    /\ pc = "loop"
    /\ data = EmptyData
    /\ stats = InitialStats
    /\ current_question = <<>>
    /\ collecting_title = FALSE
    /\ current_title_lines = <<>>
    /\ current_choices = <<>>
    /\ current_has_image = FALSE
    /\ grouped_data = <<>>
    /\ worksheet = <<>>
    /\ calls = 1
    /\ IdleCall

NextRuns == ProcessParagraph \/ EndOfStream \/ ProcessDocument

SpecRuns == InitRuns /\ [][NextRuns]_vars

-----------------------------------------------------------------------------
(* export_to_excel on the records of a finished run *)

\* answers that determine_type maps to the five types
AnswerSamples == {<<"A">>, <<"A", "B">>, <<"T">>, <<"x">>, <<>>}

\* the decimal digit of a number below ten
DigitOf(n) == <<"0", "1", "2", "3", "4", "5", "6", "7", "8", "9">>[n + 1]

\* the data process_document returns for n questions with these answers and
\* image flags, the i-th title being "Q" followed by i
DataOf(answers, images) ==
    [title_list        |-> [i \in 1..Len(answers) |-> <<"Q", DigitOf(i)>>],
     choice_list       |-> [i \in 1..Len(answers) |-> <<>>],
     answer_list       |-> answers,
     difficulty_list   |-> [i \in 1..Len(answers) |-> <<>>],
     knowledge_list    |-> [i \in 1..Len(answers) |-> <<>>],
     explain_list      |-> [i \in 1..Len(answers) |-> <<>>],
     type_list         |-> [i \in 1..Len(answers) |-> determine_type(answers[i])],
     option_count_list |-> [i \in 1..Len(answers) |-> 0],
     has_image_list    |-> images]

StatsOf(d) ==
    [k \in TypeNames \cup {"Total"} |->
        IF k = "Total" THEN Len(d.title_list)
        ELSE Cardinality({i \in 1..Len(d.type_list) : d.type_list[i] = k})]

InitExport ==
    /\ config = default_config
    /\ vocab = {}
    /\ paras = <<>>
    /\ kinds = <<>>
    /\ pc = "done"
    /\ \E n \in 0..MaxRecords :
         \E answers \in [1..n -> AnswerSamples], images \in [1..n -> BOOLEAN] :
            /\ data = DataOf(answers, images)
            /\ stats = StatsOf(data)
    /\ current_question = <<>>
    /\ collecting_title = FALSE
    /\ current_title_lines = <<>>
    /\ current_choices = <<>>
    /\ current_has_image = FALSE
    /\ grouped_data = <<>>
    /\ worksheet = <<>>
    /\ calls = 1
    /\ IdleCall

SpecExport == InitExport /\ [][ExportToExcel]_vars

-----------------------------------------------------------------------------
(* Calls of the pure functions on bounded inputs *)

\* Seq(chars) up to length n
RECURSIVE StringsUpTo(_, _)
StringsUpTo(chars, n) ==
    IF n = 0 THEN {<<>>}
    ELSE LET shorter == StringsUpTo(chars, n - 1)
         IN  shorter \cup {Append(s, c) : s \in shorter, c \in chars}

\* configurations of the option alphabet and of the judge vocabulary
OptionAlphabets == {<<"A", "B", "C", "D">>, <<"A", "B", "T">>, <<"a", "b">>}

JudgeEntries == {<<"T">>, <<"t">>, <<"A">>, <<"a", "b">>}

Thresholds == {[m |-> 5, f |-> 1], [m |-> 85, f |-> 2]}

AnswerChars == {"A", "B", "a", "b", "T", "t", " "}

TokenChars == {"0", "5", "8", ".", "-", "x", "n", "a"}

TextChars == {"1", "2", ".", "FWDOT", "x", " "}

OptionLines ==
    {<<"A", ".", "x">>,
     <<"B", ".", "y">>,
     <<"A", ".", "b", " ", "c">>,
     <<"B", ".", "a">>,
     <<"C", "FWDOT", "z">>,
     <<"A", ".", "x", " ", "B", ".", "y">>,
     <<"B", ".", "y", " ", "A", ".", "x", " ", "A", ".", "x">>}

IdleDocument ==
    /\ vocab = {}
    /\ paras = <<>>
    /\ kinds = <<>>
    /\ data = EmptyData
    /\ stats = InitialStats
    /\ current_question = <<>>
    /\ collecting_title = FALSE
    /\ current_title_lines = <<>>
    /\ current_choices = <<>>
    /\ current_has_image = FALSE
    /\ grouped_data = <<>>
    /\ worksheet = <<>>
    /\ calls = 0

InitPure ==
    /\ IdleDocument
    /\ pc = "call"
    /\ result = <<>>
    /\ \/ /\ fn = "is_question_start"
          /\ config = default_config
          /\ arg \in StringsUpTo(TextChars, MaxTextLen)
       \/ /\ fn = "determine_type"
          /\ \E options \in OptionAlphabets, judge_answers \in SUBSET JudgeEntries :
                config = [default_config EXCEPT !.options = options,
                                                !.judge_answers = judge_answers]
          /\ arg \in StringsUpTo(AnswerChars, MaxAnsLen) \cup {None}
       \/ /\ fn = "count_options"
          /\ \E options \in OptionAlphabets :
                config = [default_config EXCEPT !.options = options]
          /\ \E n \in 0..MaxLines : arg \in [1..n -> OptionLines]
       \/ /\ fn = "determine_difficulty"
          /\ \E easy \in Thresholds, medium \in Thresholds :
                config = [default_config EXCEPT
                            !.difficulty_levels.easy.threshold = easy,
                            !.difficulty_levels.medium.threshold = medium]
          /\ arg \in StringsUpTo(TokenChars, MaxTokLen)

Return(value) ==
    /\ result' = value
    /\ pc' = "return"
    /\ UNCHANGED <<config, vocab, grouped_data, worksheet, calls, fn, arg>>
    /\ UNCHANGED docVars

CallIsQuestionStart ==
    pc = "call" /\ fn = "is_question_start" /\ Return(is_question_start(arg))

CallDetermineType ==
    pc = "call" /\ fn = "determine_type" /\ Return(determine_type(arg))

\* count_options on the joined option lines, as save_current_question calls it
CallCountOptions ==
    pc = "call" /\ fn = "count_options" /\ Return(count_options(JoinChoices(arg)))

CallDetermineDifficulty ==
    pc = "call" /\ fn = "determine_difficulty" /\ Return(determine_difficulty(arg))

NextPure ==
    \/ CallIsQuestionStart
    \/ CallDetermineType
    \/ CallCountOptions
    \/ CallDetermineDifficulty

SpecPure == InitPure /\ [][NextPure]_vars

-----------------------------------------------------------------------------
(* The document read so far, cut into blocks at the question starts *)

\* the indexes of the question-start paragraphs
Starts == {i \in 1..Len(kinds) : kinds[i] = "QuestionStart"}

\* the n-th index of S
Nth(S, n) == CHOOSE i \in S : Cardinality({j \in S : j <= i}) = n

\* the indexes of the paragraphs of the n-th block after its question start:
\* up to the next question start, or to the end
BlockIndexes(S, n) ==
    (Nth(S, n) + 1)..(IF n < Cardinality(S) THEN Nth(S, n + 1) - 1 ELSE Len(paras))

TagKinds == {"answer", "difficulty", "knowledge", "explanation"}

FieldLists ==
    {"title_list", "choice_list", "answer_list", "difficulty_list",
     "knowledge_list", "explain_list", "type_list", "option_count_list",
     "has_image_list"}

\* the content paragraphs of the n-th block that the loop appends to the
\* title: those read while collecting_title is on, which only an option start
\* switches off
TitleContent(S, n) ==
    {j \in BlockIndexes(S, n) :
        /\ kinds[j] = "Content"
        /\ \A q \in (Nth(S, n) + 1)..(j - 1) : kinds[q] # "OptionStart"}

\* the number of blocks sealed so far: all but the open one while the loop
\* runs, all of them after the end of the stream
Sealed(S) ==
    IF pc = "loop" THEN (IF S = {} THEN 0 ELSE Cardinality(S) - 1)
    ELSE Cardinality(S)

-----------------------------------------------------------------------------
(* Claims on process_document, under Spec *)

\* C1: process_document emits exactly one record per question-start
\* paragraph, in the order of those paragraphs: a block is sealed only when
\* the next question start arrives or the stream ends, so while the loop runs
\* every started block but the open one has its record and after the run
\* every one has; all nine per-field lists have that length, and the i-th
\* title is the one of the i-th question-start paragraph.
C1_OneRecordPerQuestionStart ==
    LET S == Starts
        n == Sealed(S)
    IN  /\ \A name \in FieldLists : Len(data[name]) = n
        /\ \A i \in 1..n :
              StartsWith(data.title_list[i],
                         remove_question_number(Strip(paras[Nth(S, i)].text)))

C1_Witness ==
    /\ pc = "done"
    /\ Len(paras) = 4
    /\ Cardinality(Starts) = 2
    /\ Len(data.title_list) = 2
    /\ data.title_list[1] # data.title_list[2]

\* the texts of the option-start paragraphs among the indexes from..to
RECURSIVE OptionTexts(_, _)
OptionTexts(from, to) ==
    IF from > to THEN <<>>
    ELSE (IF kinds[from] = "OptionStart" THEN <<Strip(paras[from].text)>> ELSE <<>>)
            \o OptionTexts(from + 1, to)

\* C2: the paragraphs before the first question-start paragraph are
\* discarded, so the options of the first record are exactly the option-start
\* paragraphs of its own block, and its option count is the count of those.
C2_LeadingParagraphsDiscarded ==
    LET S == Starts
    IN  (pc = "done" /\ S # {}) =>
            LET block == BlockIndexes(S, 1)
                own   == JoinChoices(OptionTexts(Nth(S, 1) + 1,
                                          Nth(S, 1) + Cardinality(block)))
            IN  /\ data.choice_list[1] = own
                /\ data.option_count_list[1] = count_options(own)

\* paragraph i is an option line for the letter
IsOptionLineFor(i, letter) ==
    \/ StartsWith(Strip(paras[i].text), <<letter, ".">>)
    \/ StartsWith(Strip(paras[i].text), <<letter, "FWDOT">>)

\* the document of the round trip: a question start, an option line for A,
\* an option line for B, an answer tag with the content A
RoundTripDocument ==
    /\ Len(paras) = 4
    /\ kinds[1] = "QuestionStart"
    /\ kinds[2] = "OptionStart" /\ IsOptionLineFor(2, "A")
    /\ kinds[3] = "OptionStart" /\ IsOptionLineFor(3, "B")
    /\ kinds[4] = "answer"
    /\ get_tag_content(Strip(paras[4].text), "answer") = <<"A">>

\* C4: a question start, option lines for A and B and an answer tag with the
\* content A segment into exactly one record with optionCount 2, type
\* single-choice and answer "A".
C4_RoundTrip ==
    (pc = "done" /\ RoundTripDocument) =>
        /\ Len(data.title_list) = 1
        /\ data.option_count_list = <<2>>
        /\ data.type_list = <<"SingleChoice">>
        /\ data.answer_list = << <<"A">> >>

\* C5: tag values never carry over between blocks: the record of a block
\* with no tag paragraph has empty answer, difficulty, knowledge and
\* explanation and the type Unknown, whatever tags the other blocks received;
\* determine_type of an empty or absent answer is Unknown.
C5_NoTagCarryOver ==
    LET S == Starts
    IN  /\ \A i \in 1..Sealed(S) :
              (\A j \in BlockIndexes(S, i) : kinds[j] \notin TagKinds) =>
                  /\ data.answer_list[i] = <<>>
                  /\ data.difficulty_list[i] = <<>>
                  /\ data.knowledge_list[i] = <<>>
                  /\ data.explain_list[i] = <<>>
                  /\ data.type_list[i] = "Unknown"
        /\ determine_type(<<>>) = "Unknown"
        /\ determine_type(None) = "Unknown"

C5_Witness ==
    /\ pc = "done"
    /\ data.type_list = <<"SingleChoice", "Unknown">>
    /\ data.answer_list = << <<"A">>, <<>> >>
    /\ data.difficulty_list = << <<"Zhong">>, <<>> >>
    /\ LET S == Starts
       IN  /\ Cardinality(S) = 2
           /\ \E j \in BlockIndexes(S, 1) : kinds[j] = "answer"
           /\ \E j \in BlockIndexes(S, 1) : kinds[j] = "difficulty"
           /\ \A j \in BlockIndexes(S, 2) : kinds[j] \notin TagKinds

\* the paragraphs the claim counts as contributing to the n-th block: its
\* question start, the content paragraphs appended to the title, its
\* option-start paragraphs and its tag paragraphs
Contributing(S, n) ==
    {Nth(S, n)} \cup TitleContent(S, n)
        \cup {j \in BlockIndexes(S, n) : kinds[j] \in TagKinds \cup {"OptionStart"}}

\* C13 as claimed: a record's hasImage is true if and only if at least one
\* of the question-start, title-content, option-start and tag paragraphs of
\* its block was media-flagged.
C13_ImageFlag_AsClaimed ==
    LET S == Starts
    IN  \A i \in 1..Sealed(S) :
            data.has_image_list[i] <=>
                \E j \in Contributing(S, i) : paras[j].hasMedia

\* C13, amended: a record's hasImage is true if and only if the
\* question-start paragraph of its block or a content paragraph appended to
\* its title was media-flagged; the media flags of option-start and tag
\* paragraphs, of content paragraphs that are not appended to the title and of
\* the paragraphs of other blocks never affect it.
C13_ImageFlag ==
    LET S == Starts
    IN  \A i \in 1..Sealed(S) :
            data.has_image_list[i] <=>
                \E j \in {Nth(S, i)} \cup TitleContent(S, i) : paras[j].hasMedia

C13_Witness ==
    /\ pc = "done"
    /\ data.has_image_list = <<TRUE, FALSE>>
    /\ LET S == Starts
       IN  /\ Cardinality(S) = 2
           /\ ~paras[Nth(S, 1)].hasMedia
           /\ \E j \in TitleContent(S, 1) : paras[j].hasMedia
           /\ \E j \in BlockIndexes(S, 2) :
                 kinds[j] = "OptionStart" /\ paras[j].hasMedia

\* the list of the record field that holds a tag kind
FieldOf(tag_type) ==
    CASE tag_type = "answer" -> "answer_list"
      [] tag_type = "difficulty" -> "difficulty_list"
      [] tag_type = "knowledge" -> "knowledge_list"
      [] tag_type = "explanation" -> "explain_list"

\* the value a tag paragraph carries for its field: the content after the
\* label, mapped to a level name for the difficulty
TagValue(tag_type, text) ==
    IF tag_type = "difficulty"
    THEN determine_difficulty(get_tag_content(text, tag_type))
    ELSE get_tag_content(text, tag_type)

\* the greatest index of a non-empty set of indexes
Last(indexes) == CHOOSE j \in indexes : \A q \in indexes : q <= j

\* C14: when a tag of one kind occurs more than once inside a block, the
\* record's field holds the value of the last occurrence, also when that
\* last occurrence has empty content after the label.
C14_LastTagWins ==
    LET S == Starts
    IN  \A i \in 1..Sealed(S) :
            \A tag_type \in TagKinds :
                LET seen == {j \in BlockIndexes(S, i) : kinds[j] = tag_type}
                IN  seen # {} =>
                        data[FieldOf(tag_type)][i]
                            = TagValue(tag_type, Strip(paras[Last(seen)].text))

\* the title lines the claim expects of the paragraphs from..to of a block:
\* the content paragraphs up to the first paragraph of a kind in stop
RECURSIVE ExpectedTitleLines(_, _, _)
ExpectedTitleLines(from, to, stop) ==
    IF from > to \/ kinds[from] \in stop THEN <<>>
    ELSE (IF kinds[from] = "Content" THEN <<Strip(paras[from].text)>> ELSE <<>>)
            \o ExpectedTitleLines(from + 1, to, stop)

\* C15: once a tag paragraph has been seen for the current block, title
\* collection is off, so the title lines of the open block are its question
\* start and the content paragraphs read before the first option-start or tag
\* paragraph of the block, also when the block has no option-start paragraph.
C15_TagEndsTitle ==
    LET S == Starts
    IN  (pc = "loop" /\ S # {}) =>
            LET start == Last(S)
            IN  current_title_lines =
                    <<Strip(paras[start].text)>>
                        \o ExpectedTitleLines(start + 1, Len(paras),
                                               TagKinds \cup {"OptionStart"})

\* an option-start paragraph has been read since the last question start
OptionSeen ==
    LET S == Starts
    IN  S # {} /\ \E j \in (Last(S) + 1)..Len(kinds) : kinds[j] = "OptionStart"

\* C16: once an option-start paragraph has been seen for the current block,
\* a content paragraph leaves the title lines, the option lines, the tag
\* fields and the image flag of the block unchanged, and title collection is
\* switched on again only by a question-start paragraph.
C16_ContentIgnoredAfterOption ==
    [][(pc = "loop" /\ pc' = "loop" /\ Len(kinds') = Len(kinds) + 1 /\ OptionSeen) =>
          LET kind == kinds'[Len(kinds')]
          IN  /\ kind = "Content" =>
                    UNCHANGED <<current_title_lines, current_choices,
                                current_question, current_has_image,
                                collecting_title, data>>
              /\ collecting_title' => kind = "QuestionStart"]_vars

C16_Witness ==
    /\ pc = "loop"
    /\ kinds = <<"QuestionStart", "OptionStart", "Content">>
    /\ paras[3].hasMedia
    /\ ~collecting_title
    /\ Len(current_title_lines) = 1
    /\ Len(current_choices) = 1
    /\ ~current_has_image

\* the line kinds in their priority
Priority ==
    <<"QuestionStart", "OptionStart", "answer", "difficulty", "knowledge",
      "explanation", "Content">>

\* the text passes the test of the line kind taken alone
Matches(kind, text) ==
    CASE kind = "QuestionStart" -> is_question_start(text)
      [] kind = "OptionStart" -> is_option_start(text)
      [] kind = "Content" -> TRUE
      [] OTHER -> HasTag(text, kind)

\* the first kind in the priority whose test the text passes
RECURSIVE FirstMatchFrom(_, _)
FirstMatchFrom(k, text) ==
    IF Matches(Priority[k], text) THEN Priority[k] ELSE FirstMatchFrom(k + 1, text)

FirstMatch(text) == FirstMatchFrom(1, text)

\* the open block's dict changes at no key but this one
OnlyKeyChanges(key) ==
    \A other \in (DOMAIN current_question \cup DOMAIN current_question') \ {key} :
        /\ other \in DOMAIN current_question
        /\ other \in DOMAIN current_question'
        /\ current_question'[other] = current_question[other]

\* C17: each paragraph is dispatched to exactly one line kind by the priority
\* question start, option start, answer, difficulty, knowledge, explanation,
\* content, and it updates at most the part of the open block that belongs
\* to that kind: an option line the option lines, a tag line its own key of
\* the tags, a content line the title lines with the image flag; a text that
\* begins with labels of two tag kinds is handled only as the earlier kind.
C17_PriorityDispatch ==
    [][(pc = "loop" /\ pc' = "loop" /\ Len(paras') = Len(paras) + 1
            /\ kinds'[Len(kinds')] # "Blank") =>
          LET kind == kinds'[Len(kinds')]
          IN  /\ kind = FirstMatch(Strip(paras'[Len(paras')].text))
              /\ kind = "OptionStart" =>
                    UNCHANGED <<data, stats, current_question,
                                current_title_lines, current_has_image>>
              /\ kind \in TagKinds =>
                    /\ UNCHANGED <<data, stats, collecting_title,
                                   current_title_lines, current_choices,
                                   current_has_image>>
                    /\ OnlyKeyChanges(kind)
              /\ kind = "Content" =>
                    UNCHANGED <<data, stats, current_question, current_choices,
                                collecting_title>>]_vars

C17_Witness ==
    /\ pc = "loop"
    /\ config = overlap_config
    /\ kinds = <<"QuestionStart", "answer", "difficulty">>
    /\ HasTag(Strip(paras[2].text), "explanation")
    /\ HasTag(Strip(paras[3].text), "knowledge")
    /\ DOMAIN current_question = {"title", "answer", "difficulty"}
    /\ current_question.answer = <<"Jie", "Xi", "e">>
    /\ current_question.difficulty = <<"Zhong">>

\* the text without its leading question number: the digits and the first
\* configured separator that makes the text a question start, with the
\* whitespace that follows, removed once
StripNumberOnce(text) ==
    LET hits == {k \in 1..Len(config.separators) :
                    NumberMatchEnd(config.separators[k], text) > 0}
    IN  IF hits = {} THEN text
        ELSE RemoveNumber(config.separators[CHOOSE k \in hits : \A q \in hits : k <= q],
                          text)

\* C18: the title of a record is the block's title lines joined by single
\* spaces with only the leading question number removed: the numbering is
\* stripped once, and the text after the number is kept even when it begins
\* with digits.
C18_NumberStrippedOnce ==
    LET S == Starts
    IN  \A i \in 1..Sealed(S) :
            LET start == Nth(S, i)
                lines == <<Strip(paras[start].text)>>
                            \o ExpectedTitleLines(start + 1,
                                    start + Cardinality(BlockIndexes(S, i)),
                                    {"OptionStart"})
            IN  data.title_list[i] = StripNumberOnce(Join(<<" ">>, lines))

\* C19: for every record sequence process_document produces, also the empty
\* one of a document with no question start, export_to_excel completes
\* without raising and the sheet is one header row followed by the grouped
\* rows.
C19_ExportCompletes ==
    pc \in {"exported", "export_error"} =>
        /\ pc = "exported"
        /\ Len(worksheet) = Len(GroupedRows(data)) + 1
        /\ \A c \in DOMAIN worksheet[1].cells : worksheet[1].cells[c] = c
        /\ \A i \in 1..Len(GroupedRows(data)) :
              \A c \in DOMAIN worksheet[i + 1].cells :
                  worksheet[i + 1].cells[c] = GroupedRows(data)[i][c]

-----------------------------------------------------------------------------
(* Claims on successive runs, under SpecRuns *)

\* the number of records of a type in the data of the last call
RecordsOf(question_type) ==
    Cardinality({i \in 1..Len(data.type_list) : data.type_list[i] = question_type})

\* C20: after any number of successive process_document calls on one
\* processor the statistics agree with the last run: the total is the sum of
\* the five per-type counts, and each per-type count is the number of records
\* of that type in the data the last call returned.
C20_StatsOfLastRun ==
    pc = "done" =>
        /\ stats.Total = stats.SingleChoice + stats.MultiChoice + stats.Judgment
                            + stats.FillBlank + stats.Unknown
        /\ \A question_type \in TypeNames :
              stats[question_type] = RecordsOf(question_type)

-----------------------------------------------------------------------------
(* Claims on the pure functions, under SpecPure *)

Returned(name) == pc = "return" /\ fn = name

\* the text begins with one or more digits immediately followed by one of
\* the configured separators, taken as a literal string
LiteralQuestionStart(text) ==
    LET t == Strip(text)
        k == LeadingDigits(t)
    IN  /\ k >= 1
        /\ k + 1 <= Len(t)
        /\ \E i \in 1..Len(config.separators) : t[k + 1] = config.separators[i]

\* C3: is_question_start(text) is true if and only if the trimmed text
\* begins with digits immediately followed by a configured separator taken
\* literally; digits followed by any other character are not a question start.
C3_QuestionStartIsLiteral ==
    Returned("is_question_start") => (result <=> LiteralQuestionStart(arg))

\* the answer is non-empty, has no whitespace and only letters of the
\* configured option alphabet
ChoiceLetters(answer) ==
    /\ answer # None
    /\ Len(answer) >= 1
    /\ \A i \in 1..Len(answer) :
          /\ answer[i] \notin Whitespace
          /\ \E k \in 1..Len(config.options) : answer[i] = config.options[k]

ChoiceTypeByLength(answer) ==
    IF Len(answer) = 1 THEN "SingleChoice" ELSE "MultiChoice"

\* C6 as claimed: for every answer made of letters of the option alphabet
\* that is not an entry of the judge vocabulary, determine_type returns
\* single-choice if and only if the answer has length 1, multi-choice otherwise.
C6_ChoiceByLength_AsClaimed ==
    (Returned("determine_type") /\ ChoiceLetters(arg)
        /\ arg \notin config.judge_answers)
    => result = ChoiceTypeByLength(arg)

\* C6, amended: for every answer made of letters of the option alphabet,
\* the alphabet being letters that upper-casing leaves unchanged, that equals
\* no entry of the judge vocabulary even when case is ignored, determine_type
\* returns single-choice if and only if the answer has length 1 and
\* multi-choice otherwise, also when a letter is repeated.
C6_ChoiceByLength ==
    (Returned("determine_type") /\ ChoiceLetters(arg)
        /\ \A k \in 1..Len(config.options) :
              UpperChar(config.options[k]) = config.options[k]
        /\ \A judge_ans \in config.judge_answers : Upper(judge_ans) # Upper(arg))
    => result = ChoiceTypeByLength(arg)

C6_Witness ==
    /\ Returned("determine_type")
    /\ config.options = <<"A", "B", "T">>
    /\ config.judge_answers = {<<"t">>, <<"a", "b">>}
    /\ arg = <<"A", "A">>
    /\ result = "MultiChoice"

\* the answer is the judge entry up to the case of its letters
CaseVariant(answer, judge_ans) ==
    /\ answer # None
    /\ Len(answer) = Len(judge_ans)
    /\ \A i \in 1..Len(answer) : UpperChar(answer[i]) = UpperChar(judge_ans[i])

\* C7: for every entry of the judge vocabulary and every upper/lower-case
\* variant of it determine_type returns Judgment; the judge test comes first,
\* so an option letter that the configuration puts into the judge vocabulary
\* is classified Judgment, never single-choice.
C7_JudgeFirst ==
    (Returned("determine_type")
        /\ \E judge_ans \in config.judge_answers : CaseVariant(arg, judge_ans))
    => result = "Judgment"

C7_Witness ==
    /\ Returned("determine_type")
    /\ config.options = <<"A", "B", "C", "D">>
    /\ <<"A">> \in config.judge_answers
    /\ arg = <<"A">>
    /\ result = "Judgment"

\* the rearrangements of a list of lines
Rearrangements(lines) ==
    LET n == Len(lines)
    IN  {[i \in 1..n |-> lines[f[i]]] :
            f \in {g \in [1..n -> 1..n] : \A i, j \in 1..n : g[i] = g[j] => i = j}}

\* C8: count_options depends only on which option letters are present: for
\* any list of option lines, permuting the lines or repeating one of them
\* before they are joined leaves the count unchanged, the count never exceeds
\* the size of the option alphabet, and with the default alphabet
\* count("A.x B.y") = 2 = count("B.y A.x A.x").
C8_CountIgnoresOrderAndRepeats ==
    Returned("count_options") =>
        /\ \A lines \in Rearrangements(arg) :
              count_options(JoinChoices(lines)) = result
        /\ \A i \in 1..Len(arg), at \in 0..Len(arg) :
              count_options(JoinChoices(
                  SubSeq(arg, 1, at) \o <<arg[i]>> \o SubSeq(arg, at + 1, Len(arg))))
                = result
        /\ result <= Len(config.options)
        /\ (config.options = default_config.options
                /\ arg = << <<"A", ".", "x", " ", "B", ".", "y">> >>)
              => result = 2
        /\ (config.options = default_config.options
                /\ arg = << <<"B", ".", "y", " ", "A", ".", "x", " ", "A", ".", "x">> >>)
              => result = 2

C8_Witness ==
    /\ Returned("count_options")
    /\ config.options = <<"A", "B", "C", "D">>
    /\ arg = << <<"C", "FWDOT", "z">>, <<"A", ".", "b", " ", "c">> >>
    /\ result = 3

\* C9 as claimed: for any configured easy and medium thresholds, a value
\* equal to the medium threshold gets the medium label, a value below the
\* easy threshold the easy label, a non-numeric token the medium label.
C9_Difficulty_AsClaimed ==
    Returned("determine_difficulty") =>
        LET levels == config.difficulty_levels
            v      == ParseFloat(arg)
        IN  /\ (v.ok /\ FloatEq(v, levels.medium.threshold))
                  => result = levels.medium.name
            /\ (v.ok /\ FloatLess(v, levels.easy.threshold))
                  => result = levels.easy.name
            /\ ~v.ok => result = levels.medium.name

\* C9, amended: a value below the easy threshold gets the easy label, a
\* non-numeric token gets the medium label without raising, and a value equal
\* to the medium threshold gets the medium label when the medium threshold is
\* not below the easy threshold.
C9_Difficulty ==
    Returned("determine_difficulty") =>
        LET levels == config.difficulty_levels
            v      == ParseFloat(arg)
        IN  /\ (v.ok /\ FloatEq(v, levels.medium.threshold)
                     /\ ~DecLess(levels.medium.threshold, levels.easy.threshold))
                  => result = levels.medium.name
            /\ (v.ok /\ FloatLess(v, levels.easy.threshold))
                  => result = levels.easy.name
            /\ ~v.ok => result = levels.medium.name

C9_Witness ==
    /\ Returned("determine_difficulty")
    /\ config.difficulty_levels.easy.threshold = [m |-> 5, f |-> 1]
    /\ config.difficulty_levels.medium.threshold = [m |-> 85, f |-> 2]
    /\ arg = <<".", "8", "5">>
    /\ result = <<"Zhong">>

-----------------------------------------------------------------------------
(* Claims on export_to_excel, under SpecExport *)

\* the indexes of the blank separator rows
Separators(rows) == {i \in 1..Len(rows) : rows[i].QType = ""}

\* the types that have at least one record
NonEmptyGroups(d) == {d.type_list[i] : i \in 1..Len(d.type_list)}

\* C10: for a non-empty record sequence the grouped rows hold one blank
\* separator fewer than there are non-empty type groups; each separator lies
\* between the last row of one group and the first row of the next, no two
\* separators are adjacent, and the first and last rows are no separators.
C10_SeparatorsBetweenGroups ==
    (pc # "done" /\ Len(data.title_list) > 0) =>
        LET rows == grouped_data
            seps == Separators(rows)
        IN  /\ Cardinality(seps) = Cardinality(NonEmptyGroups(data)) - 1
            /\ \A i \in seps :
                  /\ 1 < i /\ i < Len(rows)
                  /\ i - 1 \notin seps /\ i + 1 \notin seps
                  /\ rows[i - 1].QType # rows[i + 1].QType
                  /\ \A j \in (i + 1)..Len(rows) : rows[j].QType # rows[i - 1].QType
                  /\ \A j \in 1..(i - 1) : rows[j].QType # rows[i + 1].QType

C10_Witness ==
    /\ pc = "exported"
    /\ Len(data.title_list) = 3
    /\ Cardinality(Separators(grouped_data)) = 2
    /\ Len(grouped_data) = 5

\* the data rows of the grouped sequence: all rows but the separators
DataRows(rows) == SelectSeq(rows, LAMBDA q : q.QType # "")

\* the place of a type in the fixed order
Rank(question_type) == CHOOSE k \in 1..Len(type_order) : type_order[k] = question_type

\* the records are told apart by their titles
DistinctTitles(d) ==
    \A i, j \in 1..Len(d.title_list) : d.title_list[i] = d.title_list[j] => i = j

\* the input position of a row
Source(excel_data, row) == CHOOSE k \in 1..Len(excel_data) : excel_data[k] = row

\* C11: the data rows of the grouped sequence are a permutation of the input
\* records, each record appearing exactly once; the groups come in the order
\* single-choice, multi-choice, judgment, fill-blank, unknown, and two
\* records of one type keep the relative order they had in the input.
C11_GroupedRowsArePermutation ==
    (pc # "done" /\ DistinctTitles(data)) =>
        LET excel_data == prepare_excel_data(data)
            rows       == DataRows(grouped_data)
        IN  /\ Len(rows) = Len(excel_data)
            /\ \A k \in 1..Len(excel_data) :
                  Cardinality({i \in 1..Len(rows) : rows[i] = excel_data[k]}) = 1
            /\ \A i, j \in 1..Len(rows) :
                  i < j =>
                    /\ Rank(rows[i].QType) <= Rank(rows[j].QType)
                    /\ rows[i].QType = rows[j].QType =>
                          Source(excel_data, rows[i]) < Source(excel_data, rows[j])

C11_Witness ==
    /\ pc = "exported"
    /\ data.type_list = <<"Unknown", "SingleChoice", "Unknown">>
    /\ LET rows == DataRows(grouped_data)
       IN  /\ Len(rows) = 3
           /\ rows[1].Title = data.title_list[2]
           /\ rows[2].Title = data.title_list[1]
           /\ rows[3].Title = data.title_list[3]

\* C12: after grouping and separator insertion a sheet row has the highlight
\* fill if and only if it is the data row of a record whose hasImage is
\* true: the header row and the separator rows are never filled, and the
\* separators do not shift the fill onto the row of a neighbouring record.
C12_HighlightOnImageRows ==
    (pc = "exported" /\ DistinctTitles(data)) =>
        /\ Len(worksheet) = Len(grouped_data) + 1
        /\ ~worksheet[1].fill
        /\ \A i \in 2..Len(worksheet) :
              worksheet[i].fill <=>
                  /\ worksheet[i].cells.QType # ""
                  /\ \E k \in 1..Len(data.title_list) :
                        /\ data.title_list[k] = worksheet[i].cells.Title
                        /\ data.has_image_list[k]

C12_Witness ==
    /\ pc = "exported"
    /\ data.type_list = <<"Unknown", "SingleChoice", "Judgment">>
    /\ data.has_image_list = <<TRUE, FALSE, TRUE>>
    /\ Len(worksheet) = 6
    /\ [i \in 1..6 |-> worksheet[i].fill] = <<FALSE, FALSE, FALSE, TRUE, FALSE, TRUE>>
    /\ worksheet[3].cells.QType = ""

=============================================================================
